---- MODULE Spec2Model ----
(***************************************************************************)
(* Verification model of fall-detector-imu-fuzzy-logic.                    *)
(*                                                                         *)
(*   SpecHyst   decision_from_scores (fuzzy_logic_characterized.py)        *)
(*   SpecFuzzy  fuzzy_fall_score     (fuzzy_logic_characterized.py)        *)
(*   SpecWin    slice_windows / the loop of compute_window_features        *)
(*   SpecTri    summarize_percentiles, trimf_from_quartiles,               *)
(*              summarize_thresholds, triangle_around_threshold,           *)
(*              build_fuzzy_params                                         *)
(*   SpecMain   main of analyze_fall_no_pandas.py                          *)
(*   SpecFn     percentile, compute_sampling, the sampling-rate estimate   *)
(*              and the window label of compute_window_features            *)
(*   SpecLog    the logging loop of imu_logger_labeled_txt.py              *)
(*                                                                         *)
(* Number representations                                                  *)
(*   hysteresis scores : integers, hundredths (0.70 is 70)                 *)
(*   acceleration      : integers, hundredths of g (3.50 g is 350)         *)
(*   rotation          : integers, deg/s                                   *)
(*   membership degree : integers, 1/300 (1.0 is 300)                      *)
(*   fuzzy score       : integers, 1/10000 (1.0 is 10000), rounded down    *)
(*   calibration values: integers, millionths (1e-6 is 1), or NaN          *)
(*   timestamps         : integers, milliseconds                            *)
(*   sampling rate      : integers, mHz (50 Hz is 50000), rounded down      *)
(*   window and hop     : integers, milliseconds                            *)
(***************************************************************************)
EXTENDS Integers, Sequences, FiniteSets, TLC

VARIABLES
  \* --- hysteresis stream
  hist,        \* every score the stream has produced so far
  hi, lo,      \* thresholds passed to decision_from_scores
  W,           \* length of the caller's sliding window of recent scores
  decision,    \* decision_from_scores(full history so far)
  decisionW,   \* decision_from_scores(last W scores)
  \* --- fuzzy inference
  calls,       \* the last two calls of fuzzy_fall_score: [acc, gyro, res]
  \* --- windowing loop
  impl,        \* which loop runs: "slice_windows" or "compute_window_features"
  n, win_n, hop_n,
  i,           \* loop variable
  rows,        \* windows emitted so far, <<i0, i1>> each
  wpc,         \* "derive" before win_n and hop_n are derived, "loop" while
               \* the loop runs, "done" after it
  wargs,       \* [win_s, hop_s, fs] the lengths are derived from
  \* --- fuzzy partition builder
  tpolicy,     \* "none", "quartile", "quartile_direct", "threshold",
               \* "calibrated" or "failed"
  tin,         \* the input of the last build
  tuni,        \* <<lo_bound, hi_bound>> of the last build
  tstats,      \* the statistics handed to trimf_from_quartiles
  tsets,       \* the three triples built: [low, medium, high]
  tfeat,       \* the window table handed to summarize_thresholds
  traised,     \* TRUE when the build ended in an exception
  \* --- main of analyze_fall_no_pandas.py
  mheader,     \* TRUE when the input header has every required column
  mlabels,     \* the label column of the input file, as read
  mpc,         \* "load", "features", "json", "report", "done" or "raised"
  mfeats,      \* the windows window_features_fall has computed
  mjson,       \* TRUE once the parameter JSON is written
  mreport,     \* TRUE once the text report is written
  \* --- calls of pure functions
  fname,       \* the function called, "none" before the call
  fin,         \* its arguments
  fout,        \* its result
  \* --- labeled logger
  pre_samples, retro_mode,
  buffer,      \* the retro-label deque, oldest row first
  file,        \* the rows written to the output file, in order
  produced,    \* every row the loop has built, as it was built
  current_label, last_label, event_id,
  label_change,\* <<>> for "", <<old, new>> for "old->new"
  lpc          \* "key", "sample" or "stopped"

hystVars  == <<hist, hi, lo, W, decision, decisionW>>
fuzzyVars == <<calls>>
winVars   == <<impl, n, win_n, hop_n, i, rows, wpc, wargs>>
triVars   == <<tpolicy, tin, tuni, tstats, tsets, tfeat, traised>>
mainVars  == <<mheader, mlabels, mpc, mfeats, mjson, mreport>>
fnVars    == <<fname, fin, fout>>
logVars   == <<pre_samples, retro_mode, buffer, file, produced,
               current_label, last_label, event_id, label_change, lpc>>
vars      == <<hist, hi, lo, W, decision, decisionW, calls,
               impl, n, win_n, hop_n, i, rows, wpc, wargs,
               tpolicy, tin, tuni, tstats, tsets, tfeat, traised,
               mheader, mlabels, mpc, mfeats, mjson, mreport,
               fname, fin, fout,
               pre_samples, retro_mode, buffer, file, produced,
               current_label, last_label, event_id, label_change, lpc>>

(***************************************************************************)
(* Hysteresis decision: fuzzy_logic_characterized.py, decision_from_scores *)
(***************************************************************************)

\* Bounds of the hysteresis model.
MaxHist == 5
MaxW == 3

\* Scores fed to the decision layer (hundredths): below lo, inside the band,
\* on both thresholds and above hi for either threshold pair.
ScoreVals == {20, 45, 50, 60, 70, 80}

\* <<hi, lo>> pairs, hi > lo; <<70, 50>> are the defaults of the signature.
Thresholds == {<<70, 50>>, <<80, 60>>}

\* Mutant: an earlier score >= hi keeps the decision true for good.
decision_from_scores_sticky(scores, h, l) ==
  IF scores = <<>> THEN FALSE
  ELSE LET last == scores[Len(scores)]
           was_active == \E k \in 1..(Len(scores) - 1) : scores[k] >= h
       IN  IF was_active THEN TRUE ELSE last >= h

decision_from_scores(scores, h, l) ==
  IF scores = <<>> THEN FALSE
  ELSE LET last == scores[Len(scores)]
           was_active == \E k \in 1..(Len(scores) - 1) : scores[k] >= h
       IN  IF was_active THEN last >= l ELSE last >= h

\* The caller's bounded history: the w most recent scores.
RecentScores(scores, w) ==
  IF Len(scores) <= w THEN scores
  ELSE SubSeq(scores, Len(scores) - w + 1, Len(scores))

HystInit ==
  /\ hist = <<>>
  /\ \E t \in Thresholds : hi = t[1] /\ lo = t[2]
  /\ W \in 1..MaxW
  /\ decision = decision_from_scores(<<>>, hi, lo)
  /\ decisionW = decision_from_scores(<<>>, hi, lo)

HystIdle ==
  /\ hist = <<>> /\ hi = 70 /\ lo = 50 /\ W = 1
  /\ decision = FALSE /\ decisionW = FALSE

\* A new score arrives; the decision is recomputed from the whole history
\* and from the sliding window of the last W scores.
NewScore ==
  /\ Len(hist) < MaxHist
  /\ \E s \in ScoreVals : hist' = Append(hist, s)
  /\ decision' = decision_from_scores(hist', hi, lo)
  /\ decisionW' = decision_from_scores(RecentScores(hist', W), hi, lo)
  /\ UNCHANGED <<hi, lo, W>>
  /\ UNCHANGED <<fuzzyVars, winVars, triVars, mainVars, fnVars, logVars>>

(***************************************************************************)
(* Fuzzy inference: fuzzy_logic_characterized.py                           *)
(*                                                                         *)
(* sim.compute() is scikit-fuzzy's Mamdani evaluation: each input is       *)
(* fuzzified on its universe, a rule's strength is the min of its two      *)
(* antecedent degrees, a consequent term is cut at the max strength of the *)
(* rules that name it, the aggregated shape is the pointwise max of the    *)
(* cut terms over fall_range, and the crisp value is the centroid of that  *)
(* shape; a shape of zero area raises inside compute().  The inputs below  *)
(* are universe points whose membership degrees are exact in 1/300, and    *)
(* the shape is sampled on the 101 points of fall_range.                   *)
(***************************************************************************)

\* float("nan"): a value outside the range of every modelled number.  Every
\* comparison with it is false, as in Python.
NaN == -999999999
IsNaN(x) == x = NaN
Lt(a, b) == ~IsNaN(a) /\ ~IsNaN(b) /\ a < b
Le(a, b) == ~IsNaN(a) /\ ~IsNaN(b) /\ a <= b

\* Python's min(a, b) and max(a, b): the first argument unless the second
\* compares strictly below (above) it.
PyMin(a, b) == IF Lt(b, a) THEN b ELSE a
PyMax(a, b) == IF Lt(a, b) THEN b ELSE a

\* Membership degree 1.0.
One == 300

\* Universe ends: acc_range 0..3.50 g, gyro_range 0..600 deg/s, fall_range 0..1.00.
AccMax == 350
GyroMax == 600
FallMax == 100

\* fuzz.trimf(universe, [a, b, c]) at the universe point x.
trimf(x, a, b, c) ==
  IF x = b THEN One
  ELSE IF a < x /\ x < b THEN (One * (x - a)) \div (b - a)
  ELSE IF b < x /\ x < c THEN (One * (c - x)) \div (c - b)
  ELSE 0

acc_bajo(x)  == trimf(x, 0, 40, 90)
acc_medio(x) == trimf(x, 70, 100, 160)
acc_alto(x)  == trimf(x, 120, 220, 350)

gyro_lento(x)  == trimf(x, 0, 40, 90)
gyro_medio(x)  == trimf(x, 60, 160, 260)
gyro_rapido(x) == trimf(x, 180, 320, 600)

fall_bajo(x)  == trimf(x, 0, 20, 50)
fall_medio(x) == trimf(x, 30, 50, 70)
fall_alto(x)  == trimf(x, 60, 85, 100)

AccMf(term, x) ==
  CASE term = "bajo" -> acc_bajo(x)
    [] term = "medio" -> acc_medio(x)
    [] term = "alto" -> acc_alto(x)

GyroMf(term, x) ==
  CASE term = "lento" -> gyro_lento(x)
    [] term = "medio" -> gyro_medio(x)
    [] term = "rapido" -> gyro_rapido(x)

FallMf(term, x) ==
  CASE term = "bajo" -> fall_bajo(x)
    [] term = "medio" -> fall_medio(x)
    [] term = "alto" -> fall_alto(x)

FallTerms == {"bajo", "medio", "alto"}

rules == <<
  [acc |-> "alto",  gyro |-> "rapido", fall |-> "alto"],
  [acc |-> "alto",  gyro |-> "medio",  fall |-> "medio"],
  [acc |-> "medio", gyro |-> "rapido", fall |-> "medio"],
  [acc |-> "bajo",  gyro |-> "rapido", fall |-> "medio"],
  [acc |-> "medio", gyro |-> "medio",  fall |-> "medio"],
  [acc |-> "medio", gyro |-> "lento",  fall |-> "bajo"],
  [acc |-> "bajo",  gyro |-> "lento",  fall |-> "bajo"],
  [acc |-> "alto",  gyro |-> "lento",  fall |-> "medio"] >>

\* Strength of rule r for the clamped inputs: fuzzy AND is min.
RuleStrength(r, a, g) == PyMin(AccMf(r.acc, a), GyroMf(r.gyro, g))

SetMax(S) == CHOOSE m \in S : \A y \in S : y <= m

\* Activation of a consequent term: the max strength of the rules naming it.
TermCut(term, a, g) ==
  SetMax({0} \cup {RuleStrength(rules[k], a, g) :
                     k \in {j \in 1..Len(rules) : rules[j].fall = term}})

\* The aggregated output shape on fall_range.
Aggregate(a, g) ==
  LET cut == [term \in FallTerms |-> TermCut(term, a, g)]
  IN  [x \in 0..FallMax |->
         SetMax({PyMin(cut[term], FallMf(term, x)) : term \in FallTerms})]

\* The sum of f[a] .. f[b].
RECURSIVE RangeSum(_, _, _)
RangeSum(f, a, b) ==
  IF a > b THEN 0
  ELSE IF a = b THEN f[a]
  ELSE LET m == (a + b) \div 2
       IN  RangeSum(f, a, m) + RangeSum(f, m + 1, b)

ShapeSum(y) == RangeSum(y, 0, FallMax)

\* Twice the area of the shape: the trapezoids between neighbouring points.
Area2(y) ==
  RangeSum([k \in 1..FallMax |-> y[k - 1] + y[k]], 1, FallMax)

\* Six times the sum of moment * area over the same trapezoids.
Moment6(y) ==
  RangeSum([k \in 1..FallMax |->
              3 * (k - 1) * (y[k - 1] + y[k]) + y[k - 1] + 2 * y[k]],
           1, FallMax)

\* sim.compute() and sim.output['caida']: the centroid in 1/10000, or the
\* exception of a shape with no area.
compute(a, g) ==
  LET y == Aggregate(a, g)
  IN  IF ShapeSum(y) = 0
      THEN [raised |-> TRUE, value |-> 0]
      ELSE [raised |-> FALSE,
            value |-> (100 * Moment6(y)) \div (3 * Area2(y))]

\* The clamps of fuzzy_fall_score: max(0.0, min(x, 3.50)), max(0.0, min(x, 600.0)).
ClampAcc(x) == PyMax(0, PyMin(x, AccMax))
ClampGyro(x) == PyMax(0, PyMin(x, GyroMax))

\* Mutant: the try/except around sim.compute() is missing.
fuzzy_fall_score_no_except(acc_mag_g, gyro_mag_dps) ==
  compute(ClampAcc(acc_mag_g), ClampGyro(gyro_mag_dps))

\* Mutant: the except branch returns -1.0 as an error marker.
fuzzy_fall_score_neg_fallback(acc_mag_g, gyro_mag_dps) ==
  LET r == compute(ClampAcc(acc_mag_g), ClampGyro(gyro_mag_dps))
  IN  IF r.raised THEN [raised |-> FALSE, value |-> -10000] ELSE r

\* try: sim.compute(); return float(sim.output['caida'])
\* except Exception: return 0.0
fuzzy_fall_score(acc_mag_g, gyro_mag_dps) ==
  LET r == compute(ClampAcc(acc_mag_g), ClampGyro(gyro_mag_dps))
  IN  IF r.raised THEN [raised |-> FALSE, value |-> 0] ELSE r

\* Inputs of the calls, inside and outside the universes.
AccInputs == {-50, 0, 2, 40, 70, 80, 100, 150, 220, 285, 337, 350, 400}
GyroInputs == {-10, 0, 40, 120, 250, 320, 600, 700}

\* The score of every modelled input pair, computed once.
ScoreOf == [a \in AccInputs, g \in GyroInputs |-> fuzzy_fall_score(a, g)]

FuzzyInit == calls = <<>>

FuzzyIdle == calls = <<>>

\* One call of fuzzy_fall_score; the two most recent calls are kept.
Score ==
  /\ \E a \in AccInputs, g \in GyroInputs :
        LET c == [acc |-> a, gyro |-> g, res |-> ScoreOf[a, g]]
        IN  calls' = IF Len(calls) < 2 THEN Append(calls, c)
                     ELSE <<calls[2], c>>
  /\ UNCHANGED <<hystVars, winVars, triVars, mainVars, fnVars, logVars>>

(***************************************************************************)
(* Windowing loop: slice_windows (analyze_fall_no_pandas.py) and the while *)
(* loop of compute_window_features (extract_features_and_fuzzy_params.py)  *)
(***************************************************************************)

\* Bounds of the windowing model.
MaxN == 8
MaxWin == 4
MaxHop == 3

Impls == {"slice_windows", "compute_window_features"}

\* --win and --hop (ms): negative, zero, and values whose product with fs
\* is below one sample, on a half and above it.
WinSecs == {-1000, 0, 10, 30, 50, 70}

\* Sampling rates (mHz) the estimate returns: 0.0 (1.0 / inf, a timestamp
\* cell "inf"), 25, 50 and 100 Hz.
FsVals == {0, 25000, 50000, 100000}

\* Python's round(num / den), den > 0: to the nearest integer, a half to
\* the even neighbour.
PyRound(num, den) ==
  LET q == num \div den
      r == num % den
  IN  IF 2 * r < den THEN q
      ELSE IF 2 * r > den THEN q + 1
      ELSE IF q % 2 = 0 THEN q ELSE q + 1

\* Mutant: the length is not raised to 1.
derive_n_no_floor(secs, fs) == PyRound(secs * fs, 1000000)

\* max(1, int(round(win_s * fs))), win_s in ms and fs in mHz.
derive_n(secs, fs) == PyMax(1, PyRound(secs * fs, 1000000))

NoArgs == [win_s |-> 0, hop_s |-> 0, fs |-> 0]

\* Mutant: a window is started while samples are left (i < n).
SliceCond_partial(ii, w, len) == ii < len

\* while i + win_n <= n        (slice_windows)
SliceCond(ii, w, len) == ii + w <= len

\* Mutant: the loop stops one window early (< for <=).
CwfCond_strict(ii, w, len) == ii + w < len

\* while i + win_n <= len(df)  (compute_window_features)
CwfCond(ii, w, len) == ii + w <= len

WinInit ==
  /\ impl \in Impls
  /\ n \in 0..MaxN
  /\ win_n \in 1..MaxWin
  /\ hop_n \in 1..MaxHop
  /\ i = 0
  /\ rows = <<>>
  /\ wpc = "loop"
  /\ wargs = NoArgs

WinIdle ==
  /\ impl = "slice_windows" /\ n = 0 /\ win_n = 1 /\ hop_n = 1
  /\ i = 0 /\ rows = <<>> /\ wpc = "done" /\ wargs = NoArgs

\* A run from the arguments: win_n and hop_n are not assigned yet.
DeriveInit ==
  /\ impl \in Impls
  /\ n \in 0..MaxN
  /\ \E ws \in WinSecs, hs \in WinSecs, f \in FsVals :
       wargs = [win_s |-> ws, hop_s |-> hs, fs |-> f]
  /\ win_n = 0
  /\ hop_n = 0
  /\ i = 0
  /\ rows = <<>>
  /\ wpc = "derive"

\* win_n = max(1, int(round(win_s * fs))); hop_n likewise
DeriveWindow ==
  /\ wpc = "derive"
  /\ win_n' = derive_n(wargs.win_s, wargs.fs)
  /\ hop_n' = derive_n(wargs.hop_s, wargs.fs)
  /\ wpc' = "loop"
  /\ UNCHANGED <<impl, n, i, rows, wargs>>
  /\ UNCHANGED <<hystVars, fuzzyVars, triVars, mainVars, fnVars, logVars>>

\* slice_windows: yield (i, i + win_n); i += hop_n
SliceYield ==
  /\ impl = "slice_windows" /\ wpc = "loop"
  /\ SliceCond(i, win_n, n)
  /\ rows' = Append(rows, <<i, i + win_n>>)
  /\ i' = i + hop_n
  /\ UNCHANGED <<impl, n, win_n, hop_n, wpc, wargs>>
  /\ UNCHANGED <<hystVars, fuzzyVars, triVars, mainVars, fnVars, logVars>>

SliceReturn ==
  /\ impl = "slice_windows" /\ wpc = "loop"
  /\ ~SliceCond(i, win_n, n)
  /\ wpc' = "done"
  /\ UNCHANGED <<impl, n, win_n, hop_n, i, rows, wargs>>
  /\ UNCHANGED <<hystVars, fuzzyVars, triVars, mainVars, fnVars, logVars>>

\* compute_window_features: sl = slice(i, i + win_n); rows.append(...); i += hop_n
CwfAppend ==
  /\ impl = "compute_window_features" /\ wpc = "loop"
  /\ CwfCond(i, win_n, n)
  /\ LET sl == [start |-> i, stop |-> i + win_n]
     IN  rows' = Append(rows, <<sl.start, sl.stop>>)
  /\ i' = i + hop_n
  /\ UNCHANGED <<impl, n, win_n, hop_n, wpc, wargs>>
  /\ UNCHANGED <<hystVars, fuzzyVars, triVars, mainVars, fnVars, logVars>>

CwfReturn ==
  /\ impl = "compute_window_features" /\ wpc = "loop"
  /\ ~CwfCond(i, win_n, n)
  /\ wpc' = "done"
  /\ UNCHANGED <<impl, n, win_n, hop_n, i, rows, wargs>>
  /\ UNCHANGED <<hystVars, fuzzyVars, triVars, mainVars, fnVars, logVars>>

(***************************************************************************)
(* Fuzzy partition builder.                                                *)
(*   quartile policy : analyze_fall_no_pandas.py                           *)
(*   threshold policy: extract_features_and_fuzzy_params.py                *)
(* Values are in millionths, so the repair step 1e-6 is 1.                 *)
(***************************************************************************)

\* The repair step 1e-6.
EPS == 1

\* Bound of the calibration model: the most windows of one run.
MaxVals == 3

RECURSIVE Insert(_, _)
Insert(x, s) ==
  IF s = <<>> THEN <<x>>
  ELSE IF x <= Head(s) THEN <<x>> \o s
  ELSE <<Head(s)>> \o Insert(x, Tail(s))

\* Python's sorted() on a list of numbers.
RECURSIVE sorted(_)
sorted(s) == IF s = <<>> THEN <<>> ELSE Insert(Head(s), sorted(Tail(s)))

NotNaN(v) == ~IsNaN(v)

\* Mutant: the values are not sorted.
percentile_unsorted(values, p) ==
  LET vs == SelectSeq(values, NotNaN)
  IN  IF vs = <<>> THEN NaN
      ELSE IF p <= 0 THEN vs[1]
      ELSE IF p >= 100 THEN vs[Len(vs)]
      ELSE LET k100 == (Len(vs) - 1) * p
               f == k100 \div 100
               r == k100 % 100
           IN  IF r = 0 THEN vs[f + 1]
               ELSE (vs[f + 1] \div 100) * (100 - r) + (vs[f + 2] \div 100) * r

\* percentile(values, p), p in percent; the interpolation weights (c - k) and
\* (k - f) are (100 - r)/100 and r/100 with r = ((len - 1) * p) mod 100.
percentile(values, p) ==
  LET vs == sorted(SelectSeq(values, NotNaN))
  IN  IF vs = <<>> THEN NaN
      ELSE IF p <= 0 THEN vs[1]
      ELSE IF p >= 100 THEN vs[Len(vs)]
      ELSE LET k100 == (Len(vs) - 1) * p
               f == k100 \div 100
               r == k100 % 100
           IN  IF r = 0 THEN vs[f + 1]
               ELSE (vs[f + 1] \div 100) * (100 - r) + (vs[f + 2] \div 100) * r

summarize_percentiles(values) ==
  LET clean == SelectSeq(values, NotNaN)
  IN  IF clean = <<>>
      THEN [p10 |-> NaN, p25 |-> NaN, p50 |-> NaN, p75 |-> NaN, p90 |-> NaN,
            min |-> NaN, max |-> NaN]
      ELSE [min |-> sorted(clean)[1], max |-> sorted(clean)[Len(clean)],
            p10 |-> percentile(clean, 10), p25 |-> percentile(clean, 25),
            p50 |-> percentile(clean, 50), p75 |-> percentile(clean, 75),
            p90 |-> percentile(clean, 90)]

\* dict.get(key, default)
DictGet(d, key, default) == IF key \in DOMAIN d THEN d[key] ELSE default

\* trimf_from_quartiles.clamp
clamp(x, lo_bound, hi_bound) == PyMax(lo_bound, PyMin(hi_bound, x))

\* Mutant: the repaired bound is not clamped back to hi_bound.
tri_no_reclamp(a, b, c, lo_bound, hi_bound) ==
  LET a1 == clamp(a, lo_bound, hi_bound)
      b1 == clamp(b, lo_bound, hi_bound)
      c1 == clamp(c, lo_bound, hi_bound)
      b2 == IF Le(b1, a1) THEN a1 + EPS ELSE b1
      c2 == IF Le(c1, b2) THEN b2 + EPS ELSE c1
  IN  <<a1, b2, c2>>

\* trimf_from_quartiles.tri
tri(a, b, c, lo_bound, hi_bound) ==
  LET a1 == clamp(a, lo_bound, hi_bound)
      b1 == clamp(b, lo_bound, hi_bound)
      c1 == clamp(c, lo_bound, hi_bound)
      b2 == IF Le(b1, a1) THEN PyMin(hi_bound, a1 + EPS) ELSE b1
      c2 == IF Le(c1, b2) THEN PyMin(hi_bound, b2 + EPS) ELSE c1
  IN  <<a1, b2, c2>>

trimf_from_quartiles(stats, lo_bound, hi_bound) ==
  LET mn  == DictGet(stats, "min", lo_bound)
      mx  == DictGet(stats, "max", hi_bound)
      p25 == DictGet(stats, "p25", lo_bound)
      p50 == DictGet(stats, "p50", (lo_bound + hi_bound) \div 2)
      p75 == DictGet(stats, "p75", hi_bound)
  IN  [low    |-> tri(mn, p25, p50, lo_bound, hi_bound),
       medium |-> tri(p25, p50, p75, lo_bound, hi_bound),
       high   |-> tri(p50, p75, mx, lo_bound, hi_bound)]

\* x * (k / 10) for the factors 0.2 .. 0.8 of the threshold policy.
Mul10(x, k) == (x \div 10) * k

\* triangle_around_threshold.sort_tri
sort_tri(x, hi_bound) ==
  LET x0 == sorted(x)
      x1 == IF x0[1] = x0[2]
            THEN <<x0[1], PyMin(hi_bound, x0[2] + EPS), x0[3]>> ELSE x0
      x2 == IF x1[2] = x1[3]
            THEN <<x1[1], x1[2], PyMin(hi_bound, x1[3] + EPS)>> ELSE x1
  IN  x2

triangle_around_threshold(thr, low_max, high_min, lo_bound, hi_bound) ==
  IF IsNaN(thr)
  THEN LET span == hi_bound - lo_bound
       IN  [low    |-> <<lo_bound, lo_bound, lo_bound + Mul10(span, 4)>>,
            medium |-> <<lo_bound + Mul10(span, 2), lo_bound + Mul10(span, 5),
                         lo_bound + Mul10(span, 8)>>,
            high   |-> <<lo_bound + Mul10(span, 6), hi_bound, hi_bound>>]
  ELSE LET low  == << PyMax(lo_bound, lo_bound),
                      PyMax(lo_bound, (lo_bound + low_max) \div 2),
                      PyMax(lo_bound, PyMin(thr, low_max)) >>
           mid  == << PyMax(lo_bound, thr - Mul10(thr - lo_bound, 3)),
                      thr,
                      PyMin(hi_bound, thr + Mul10(hi_bound - thr, 3)) >>
           high == << PyMin(hi_bound, PyMax(thr, high_min)),
                      PyMin(hi_bound, (high_min + hi_bound) \div 2),
                      PyMin(hi_bound, hi_bound) >>
       IN  [low    |-> sort_tri(low, hi_bound),
            medium |-> sort_tri(mid, hi_bound),
            high   |-> sort_tri(high, hi_bound)]

\* np.nanpercentile(sub, q): linear interpolation between the closest ranks
\* of the non-missing values (numpy's default method).
nanpercentile(sub, q) == percentile(sub, q)

\* feat[feat["label"] == lab][feature]
ClassValues(feat, lab) ==
  LET IsLab(w) == w.label = lab
      sub == SelectSeq(feat, IsLab)
  IN  [k \in 1..Len(sub) |-> sub[k].value]

\* summarize_thresholds(feat, feature), feat the rows of one feature.  The
\* table of a run without windows is pd.DataFrame([]), which has no column:
\* feat["label"] raises KeyError.
summarize_thresholds(feat) ==
  IF feat = <<>>
  THEN [raised |-> TRUE, ADL_p50 |-> NaN, ADL_p95 |-> NaN,
        FALL_p50 |-> NaN, FALL_p95 |-> NaN, thr |-> NaN]
  ELSE LET adl  == ClassValues(feat, "ADL")
           fall == ClassValues(feat, "FALL")
           adl_p50  == IF Len(adl) = 0 THEN NaN ELSE nanpercentile(adl, 50)
           adl_p95  == IF Len(adl) = 0 THEN NaN ELSE nanpercentile(adl, 95)
           fall_p50 == IF Len(fall) = 0 THEN NaN ELSE nanpercentile(fall, 50)
           fall_p95 == IF Len(fall) = 0 THEN NaN ELSE nanpercentile(fall, 95)
       IN  [raised |-> FALSE, ADL_p50 |-> adl_p50, ADL_p95 |-> adl_p95,
            FALL_p50 |-> fall_p50, FALL_p95 |-> fall_p95,
            thr |-> IF ~IsNaN(adl_p95) /\ ~IsNaN(fall_p50)
                    THEN (adl_p95 + fall_p50) \div 2 ELSE NaN]

\* build_fuzzy_params, one feature: the universe and the two anchors it hands
\* to triangle_around_threshold.
build_fuzzy_params(feature, thr, max) ==
  IF feature = "tilt_delta"
  THEN triangle_around_threshold(thr, PyMin(90000000, thr),
                                 PyMax(thr, 15000000), 0, 120000000)
  ELSE triangle_around_threshold(thr, PyMin(Mul10(max, 6), thr),
                                 PyMax(thr, Mul10(max, 4)), 0, max)

FeatureUniverse(feature, max) ==
  IF feature = "tilt_delta" THEN <<0, 120000000>> ELSE <<0, max>>

\* Per-window feature values of one feature (millionths), possibly missing.
FeatVals == {NaN, 0, 1000000, 3000000, 4000000}

RECURSIVE SeqsUpTo(_, _)
SeqsUpTo(S, k) ==
  IF k = 0 THEN {<<>>}
  ELSE SeqsUpTo(S, k - 1) \cup
       {Append(q, v) : q \in {r \in SeqsUpTo(S, k - 1) : Len(r) = k - 1}, v \in S}

\* --max-g values of a run (3.0 is the default).
MaxGs == {2000000, 3000000}

\* Statistics and universes of a direct call of trimf_from_quartiles.
StatVals == {-1000000, 0, 1000000, 3000000, 4000000}
LoBounds == {-1000000, 0, 1000000}
HiBounds == {2000000, 3000000}

\* (feature, thr, universe max) of the threshold policy; thr is NaN when a
\* class has no window.
ThrInputs ==
  {<<"accel", t, 3000000>> :
      t \in {NaN, 0, 1000000, 1500000, 2000000, 3000000, 4000000}}
  \cup {<<"omega", t, 400000000>> :
      t \in {NaN, 0, 100000000, 200000000, 400000000, 500000000}}
  \cup {<<"tilt_delta", t, 0>> :
      t \in {NaN, -30000000, 0, 10000000, 60000000, 120000000, 150000000}}

\* Window labels of the feature table.
WinLabels == {"ADL", "FALL", "NONE"}

\* (feature, universe max, window values) of a calibration run of the
\* threshold policy.
CalInputs ==
  { <<"accel", 3000000, {1000000, 2000000, 4000000}>>,
    <<"omega", 400000000, {100000000, 200000000, 500000000}>>,
    <<"tilt_delta", 0, {-30000000, 10000000, 60000000}>> }

NoSets == [low |-> <<0, 0, 0>>, medium |-> <<0, 0, 0>>, high |-> <<0, 0, 0>>]
NoStats == [min |-> NaN, max |-> NaN, p10 |-> NaN, p25 |-> NaN, p50 |-> NaN,
            p75 |-> NaN, p90 |-> NaN]

TriInit ==
  /\ tpolicy = "none"
  /\ tin = <<>>
  /\ tuni = <<0, 0>>
  /\ tstats = NoStats
  /\ tsets = NoSets
  /\ tfeat = <<>>
  /\ traised = FALSE

TriIdle == TriInit

\* build_fuzzy_from_fall for one feature: the window values are summarized
\* and the quartile policy builds the three sets over [0, max].
BuildFromFall ==
  /\ tpolicy = "none"
  /\ \E values \in SeqsUpTo(FeatVals, MaxVals), max \in MaxGs :
       /\ tin' = values
       /\ tuni' = <<0, max>>
       /\ tstats' = summarize_percentiles(values)
       /\ tsets' = trimf_from_quartiles(tstats', 0, max)
  /\ tpolicy' = "quartile"
  /\ UNCHANGED <<tfeat, traised>>
  /\ UNCHANGED <<hystVars, fuzzyVars, winVars, mainVars, fnVars, logVars>>

\* trimf_from_quartiles called with any statistics and any universe lo < hi.
TrimfDirect ==
  /\ tpolicy = "none"
  /\ \E mn \in StatVals, p25 \in StatVals, p50 \in StatVals,
        p75 \in StatVals, mx \in StatVals,
        lo_bound \in LoBounds, hi_bound \in HiBounds :
       /\ tin' = <<mn, p25, p50, p75, mx>>
       /\ tuni' = <<lo_bound, hi_bound>>
       /\ tstats' = [min |-> mn, max |-> mx, p10 |-> mn, p25 |-> p25,
                     p50 |-> p50, p75 |-> p75, p90 |-> mx]
       /\ tsets' = trimf_from_quartiles(tstats', lo_bound, hi_bound)
  /\ tpolicy' = "quartile_direct"
  /\ UNCHANGED <<tfeat, traised>>
  /\ UNCHANGED <<hystVars, fuzzyVars, winVars, mainVars, fnVars, logVars>>

\* build_fuzzy_params for one feature of the threshold policy.
BuildParams ==
  /\ tpolicy = "none"
  /\ \E t \in ThrInputs :
       /\ tin' = t
       /\ tuni' = FeatureUniverse(t[1], t[3])
       /\ tsets' = build_fuzzy_params(t[1], t[2], t[3])
  /\ tstats' = NoStats
  /\ tpolicy' = "threshold"
  /\ UNCHANGED <<tfeat, traised>>
  /\ UNCHANGED <<hystVars, fuzzyVars, winVars, mainVars, fnVars, logVars>>

\* main of extract_features_and_fuzzy_params.py for one feature: the window
\* table is summarized and build_fuzzy_params builds the sets from thr.
Calibrate ==
  /\ tpolicy = "none"
  /\ \E c \in CalInputs :
       \E feat \in SeqsUpTo([label : WinLabels, value : c[3]], MaxVals) :
         LET s == summarize_thresholds(feat)
         IN  /\ tfeat' = feat
             /\ traised' = s.raised
             /\ tin' = <<c[1], s.thr, c[2]>>
             /\ tuni' = FeatureUniverse(c[1], c[2])
             /\ tsets' = IF s.raised THEN NoSets
                         ELSE build_fuzzy_params(c[1], s.thr, c[2])
             /\ tpolicy' = IF s.raised THEN "failed" ELSE "calibrated"
  /\ tstats' = NoStats
  /\ UNCHANGED <<hystVars, fuzzyVars, winVars, mainVars, fnVars, logVars>>

(***************************************************************************)
(* main of analyze_fall_no_pandas.py: load_labeled_rows, compute_sampling  *)
(* for the report, window_features_fall, build_fuzzy_from_fall and the two *)
(* outputs.  An exception leaves main at once: there is no handler.        *)
(***************************************************************************)

\* Bound of the pipeline model: the most data rows of the input file.
MaxRows == 4

\* Label cells of the input file.
RawLabels == {"ADL", "FALL", "NONE", "fall"}

\* str(x).strip().upper()
StripUpper(x) == IF x = "fall" THEN "FALL" ELSE x

\* slice_windows as the list of the pairs it yields.
RECURSIVE SliceFrom(_, _, _, _)
SliceFrom(ii, len, w, h) ==
  IF SliceCond(ii, w, len)
  THEN << <<ii, ii + w>> >> \o SliceFrom(ii + h, len, w, h)
  ELSE <<>>

slice_windows(len, w, h) == SliceFrom(0, len, w, h)

\* The indices of the rows labeled FALL.
IdxFall(labels) ==
  LET label == [k \in 1..Len(labels) |-> StripUpper(labels[k])]
      IsFall(k) == label[k] = "FALL"
  IN  SelectSeq([k \in 1..Len(labels) |-> k], IsFall)

\* Mutant: the empty FALL selection is not rejected.
window_features_fall_no_guard(labels, w, h) ==
  [raised |-> FALSE, feats |-> slice_windows(Len(IdxFall(labels)), w, h)]

\* window_features_fall; w and h are the win_n and hop_n it derives from the
\* FALL timestamps, both at least 1.
window_features_fall(labels, w, h) ==
  LET idx_fall == IdxFall(labels)
  IN  IF idx_fall = <<>>
      THEN [raised |-> TRUE, feats |-> <<>>]
      ELSE [raised |-> FALSE, feats |-> slice_windows(Len(idx_fall), w, h)]

MainInit ==
  /\ mheader \in BOOLEAN
  /\ mlabels \in SeqsUpTo(RawLabels, MaxRows)
  /\ mpc = "load"
  /\ mfeats = <<>>
  /\ mjson = FALSE
  /\ mreport = FALSE

MainIdle ==
  /\ mheader = TRUE /\ mlabels = <<>> /\ mpc = "done"
  /\ mfeats = <<>> /\ mjson = FALSE /\ mreport = FALSE

\* cols = load_labeled_rows(args.infile), which raises on a missing required
\* column; fs_report = compute_sampling(t_all) changes nothing.
LoadRows ==
  /\ mpc = "load"
  /\ mpc' = IF mheader THEN "features" ELSE "raised"
  /\ UNCHANGED <<mheader, mlabels, mfeats, mjson, mreport>>
  /\ UNCHANGED <<hystVars, fuzzyVars, winVars, triVars, fnVars, logVars>>

\* feats = window_features_fall(cols, ...)
WindowFeaturesFall ==
  /\ mpc = "features"
  /\ \E w \in 1..2, h \in 1..2 :
       LET r == window_features_fall(mlabels, w, h)
       IN  /\ mfeats' = r.feats
           /\ mpc' = IF r.raised THEN "raised" ELSE "json"
  /\ UNCHANGED <<mheader, mlabels, mjson, mreport>>
  /\ UNCHANGED <<hystVars, fuzzyVars, winVars, triVars, fnVars, logVars>>

\* params = build_fuzzy_from_fall(feats, ...); json.dump(params, jf)
DumpJson ==
  /\ mpc = "json"
  /\ mjson' = TRUE
  /\ mpc' = "report"
  /\ UNCHANGED <<mheader, mlabels, mfeats, mreport>>
  /\ UNCHANGED <<hystVars, fuzzyVars, winVars, triVars, fnVars, logVars>>

\* write_report(args.out_report, fs_report, feats, params)
WriteReport ==
  /\ mpc = "report"
  /\ mreport' = TRUE
  /\ mpc' = "done"
  /\ UNCHANGED <<mheader, mlabels, mfeats, mjson>>
  /\ UNCHANGED <<hystVars, fuzzyVars, winVars, triVars, fnVars, logVars>>

(***************************************************************************)
(* Pure functions, one call each: percentile and compute_sampling          *)
(* (analyze_fall_no_pandas.py), the sampling-rate estimate and the window  *)
(* label of compute_window_features (extract_features_and_fuzzy_params.py) *)
(***************************************************************************)

\* Bounds of the calls: list lengths.
MaxList == 4
MaxTs == 4
MaxLabels == 4

\* Percentiles asked for.
Percents == {0, 25, 50, 100}

\* Timestamps (ms) of consecutive rows: regular, jittered, repeated and
\* restarting (two recordings in one file).
TsVals == {0, 10, 20, 40}

\* 50.0 Hz
DefaultFs == 50000

\* 1.0 / dt, dt in ms, the rate in mHz.
Hz(dt) == 1000000 \div dt

\* Consecutive differences t[k+1] - t[k].
Deltas(t) == [k \in 1..(Len(t) - 1) |-> t[k + 1] - t[k]]

Positive(d) == d > 0

\* compute_sampling(dt_list, default_fs)
compute_sampling(dt_list, default_fs) ==
  LET dts == SelectSeq(Deltas(dt_list), Positive)
  IN  IF dts = <<>> THEN default_fs
      ELSE LET dts_sorted == sorted(dts)
               mid == Len(dts_sorted) \div 2
               dt_med == IF Len(dts_sorted) % 2 = 1 THEN dts_sorted[mid + 1]
                         ELSE (dts_sorted[mid] + dts_sorted[mid + 1]) \div 2
           IN  IF dt_med > 0 THEN Hz(dt_med) ELSE default_fs

\* compute_window_features: dt = df["t"].diff().median();
\* fs = 1.0 / dt if dt and dt > 0 else 50.0.  The median is taken over every
\* difference; without a difference it is NaN, which is not > 0.
cwf_fs(t) ==
  LET dts == Deltas(t)
  IN  IF dts = <<>> THEN DefaultFs
      ELSE LET s == sorted(dts)
               mid == Len(s) \div 2
               dt == IF Len(s) % 2 = 1 THEN s[mid + 1]
                     ELSE (s[mid] + s[mid + 1]) \div 2
           IN  IF dt # 0 /\ dt > 0 THEN Hz(dt) ELSE DefaultFs

\* The labels of the samples, in the order np.unique returns them.
LabelOrder == <<"ADL", "FALL", "NONE", "nan">>

Labels == {LabelOrder[k] : k \in 1..Len(LabelOrder)}

CountOf(window, l) == Cardinality({k \in 1..Len(window) : window[k] = l})

\* np.argmax(counts): the first index of the largest count.
ArgMax(labs, window) ==
  CHOOSE j \in 1..Len(labs) :
    /\ \A m \in 1..Len(labs) : CountOf(window, labs[m]) <= CountOf(window, labs[j])
    /\ \A m \in 1..(j - 1) : CountOf(window, labs[m]) < CountOf(window, labs[j])

\* Mutant: NONE is kept when mixed with other labels.
win_label_keep_none(window) ==
  LET Occurs(l) == CountOf(window, l) > 0
      labs == SelectSeq(LabelOrder, Occurs)
  IN  IF Len(labs) > 0 THEN labs[ArgMax(labs, window)] ELSE "NONE"

\* The window label of compute_window_features.
win_label(window) ==
  LET Occurs(l) == CountOf(window, l) > 0
      NotNone(l) == l # "NONE"
      labs0 == SelectSeq(LabelOrder, Occurs)
      labs == IF Len(labs0) > 1 /\ Occurs("NONE")
              THEN SelectSeq(labs0, NotNone) ELSE labs0
  IN  IF Len(labs) > 0 THEN labs[ArgMax(labs, window)] ELSE "NONE"

FnInit == fname = "none" /\ fin = <<>> /\ fout = 0

FnIdle == fname = "idle" /\ fin = <<>> /\ fout = 0

CallPercentile ==
  /\ fname = "none"
  /\ \E values \in SeqsUpTo(FeatVals, MaxList), p \in Percents :
       /\ fin' = <<values, p>>
       /\ fout' = percentile(values, p)
  /\ fname' = "percentile"
  /\ UNCHANGED <<hystVars, fuzzyVars, winVars, triVars, mainVars, logVars>>

CallComputeSampling ==
  /\ fname = "none"
  /\ \E t \in SeqsUpTo(TsVals, MaxTs) :
       /\ fin' = t
       /\ fout' = compute_sampling(t, DefaultFs)
  /\ fname' = "compute_sampling"
  /\ UNCHANGED <<hystVars, fuzzyVars, winVars, triVars, mainVars, logVars>>

CallCwfFs ==
  /\ fname = "none"
  /\ \E t \in SeqsUpTo(TsVals, MaxTs) :
       /\ fin' = t
       /\ fout' = cwf_fs(t)
  /\ fname' = "cwf_fs"
  /\ UNCHANGED <<hystVars, fuzzyVars, winVars, triVars, mainVars, logVars>>

\* A window holds win_n >= 1 samples.
CallWinLabel ==
  /\ fname = "none"
  /\ \E window \in SeqsUpTo(Labels, MaxLabels) \ {<<>>} :
       /\ fin' = window
       /\ fout' = win_label(window)
  /\ fname' = "win_label"
  /\ UNCHANGED <<hystVars, fuzzyVars, winVars, triVars, mainVars, logVars>>

(***************************************************************************)
(* Labeled logger: the loop of main in imu_logger_labeled_txt.py.  One     *)
(* iteration is the key handling (HandleKey) followed by the sample and    *)
(* its buffered write (Sample); Ctrl+C (Stop) ends the loop at either      *)
(* point and flushes the buffer.                                           *)
(***************************************************************************)

\* Bounds of the logger model: pre_samples and the rows of one run.
MaxPre == 2
MaxFrames == 4

RetroModes == {"off", "fall_only", "all"}

\* getch_nonblock(): no key, or one character.
Keys == {"none", "0", "1", " ", "x"}

KeyLabel(ch, cur) ==
  IF ch = "0" THEN "ADL"
  ELSE IF ch = "1" THEN "FALL"
  ELSE IF ch = " " THEN "NONE"
  ELSE cur

\* Mutant: every label change rewrites the buffer, whatever the retro-mode.
do_retro_always(mode, cur) == TRUE

do_retro(mode, cur) ==
  mode = "all" \/ (mode = "fall_only" /\ cur = "FALL")

\* The for loop over buffer[-i], i = 1 .. min(pre_samples, len(buffer)).
RetroLabel(buf, pre, cur, ev, change) ==
  LET m == IF pre < Len(buf) THEN pre ELSE Len(buf)
  IN  [k \in 1..Len(buf) |->
         IF k > Len(buf) - m
         THEN [buf[k] EXCEPT !.label = cur, !.event_id = ev,
                             !.label_change =
                                IF k = Len(buf) THEN change ELSE @]
         ELSE buf[k]]

\* deque(maxlen = ...).append(x): a full deque discards its oldest item.
DequeAppend(buf, x, maxlen) ==
  IF Len(buf) >= maxlen THEN Append(Tail(buf), x) ELSE Append(buf, x)

\* while len(buffer) > pre_samples: write_row(f, buffer.popleft())
RECURSIVE Drain(_, _, _)
Drain(buf, f, pre) ==
  IF Len(buf) > pre THEN Drain(Tail(buf), Append(f, Head(buf)), pre)
  ELSE <<buf, f>>

LogInit ==
  /\ pre_samples \in 0..MaxPre
  /\ retro_mode \in RetroModes
  /\ buffer = <<>>
  /\ file = <<>>
  /\ produced = <<>>
  /\ current_label = "NONE"
  /\ last_label = "NONE"
  /\ event_id = 0
  /\ label_change = <<>>
  /\ lpc = "key"

LogIdle ==
  /\ pre_samples = 0 /\ retro_mode = "off"
  /\ buffer = <<>> /\ file = <<>> /\ produced = <<>>
  /\ current_label = "NONE" /\ last_label = "NONE" /\ event_id = 0
  /\ label_change = <<>> /\ lpc = "stopped"

\* The keyboard part of one iteration.
HandleKey ==
  /\ lpc = "key"
  /\ Len(produced) < MaxFrames
  /\ \E ch \in Keys :
       LET cur == IF ch = "none" THEN current_label
                  ELSE KeyLabel(ch, current_label)
       IN  /\ current_label' = cur
           /\ IF ch # "none" /\ cur # last_label
              THEN LET ev == IF cur = "FALL" THEN event_id + 1 ELSE event_id
                       change == <<last_label, cur>>
                   IN  /\ event_id' = ev
                       /\ label_change' = change
                       /\ buffer' = IF pre_samples > 0 /\ do_retro(retro_mode, cur)
                                     THEN RetroLabel(buffer, pre_samples, cur,
                                                     ev, change)
                                     ELSE buffer
                       /\ last_label' = cur
              ELSE /\ label_change' = <<>>
                   /\ UNCHANGED <<event_id, buffer, last_label>>
  /\ lpc' = "sample"
  /\ UNCHANGED <<pre_samples, retro_mode, file, produced>>
  /\ UNCHANGED <<hystVars, fuzzyVars, winVars, triVars, mainVars, fnVars>>

\* The IMU read, the row and its buffered write.
Sample ==
  /\ lpc = "sample"
  /\ LET row == [frame |-> Len(produced) + 1, label |-> current_label,
                 event_id |-> event_id, label_change |-> label_change]
     IN  /\ produced' = Append(produced, row)
         /\ IF pre_samples > 0
            THEN LET maxlen == IF pre_samples > 1 THEN pre_samples ELSE 1
                     d == Drain(DequeAppend(buffer, row, maxlen), file,
                                pre_samples)
                 IN  buffer' = d[1] /\ file' = d[2]
            ELSE file' = Append(file, row) /\ buffer' = buffer
  /\ lpc' = "key"
  /\ UNCHANGED <<pre_samples, retro_mode, current_label, last_label,
                 event_id, label_change>>
  /\ UNCHANGED <<hystVars, fuzzyVars, winVars, triVars, mainVars, fnVars>>

\* except KeyboardInterrupt: while buffer: write_row(f, buffer.popleft())
Stop ==
  /\ lpc \in {"key", "sample"}
  /\ file' = file \o buffer
  /\ buffer' = <<>>
  /\ lpc' = "stopped"
  /\ UNCHANGED <<pre_samples, retro_mode, produced, current_label,
                 last_label, event_id, label_change>>
  /\ UNCHANGED <<hystVars, fuzzyVars, winVars, triVars, mainVars, fnVars>>

(***************************************************************************)
(* Specifications.  The components share no state; each is checked on its  *)
(* own, the other components at rest.                                      *)
(***************************************************************************)

Rest == MainIdle /\ FnIdle /\ LogIdle

HystSpecInit == HystInit /\ FuzzyIdle /\ WinIdle /\ TriIdle /\ Rest
HystNext == NewScore
SpecHyst == HystSpecInit /\ [][HystNext]_vars

FuzzySpecInit == HystIdle /\ FuzzyInit /\ WinIdle /\ TriIdle /\ Rest
FuzzyNext == Score
SpecFuzzy == FuzzySpecInit /\ [][FuzzyNext]_vars

WinSpecInit == HystIdle /\ FuzzyIdle /\ WinInit /\ TriIdle /\ Rest
WinNext ==
  \/ SliceYield
  \/ SliceReturn
  \/ CwfAppend
  \/ CwfReturn
SpecWin == WinSpecInit /\ [][WinNext]_vars

\* The run from the arguments.  The code is sequential and synchronous:
\* whenever a step is enabled, the interpreter takes it.
DeriveSpecInit == HystIdle /\ FuzzyIdle /\ DeriveInit /\ TriIdle /\ Rest
DeriveNext ==
  \/ DeriveWindow
  \/ SliceYield
  \/ SliceReturn
  \/ CwfAppend
  \/ CwfReturn
SpecDerive == DeriveSpecInit /\ [][DeriveNext]_vars /\ WF_vars(DeriveNext)

TriSpecInit == HystIdle /\ FuzzyIdle /\ WinIdle /\ TriInit /\ Rest
TriNext ==
  \/ BuildFromFall
  \/ TrimfDirect
  \/ BuildParams
  \/ Calibrate
SpecTri == TriSpecInit /\ [][TriNext]_vars

Quiet == HystIdle /\ FuzzyIdle /\ WinIdle /\ TriIdle

MainSpecInit == Quiet /\ MainInit /\ FnIdle /\ LogIdle
MainNext ==
  \/ LoadRows
  \/ WindowFeaturesFall
  \/ DumpJson
  \/ WriteReport
SpecMain == MainSpecInit /\ [][MainNext]_vars

FnSpecInit == Quiet /\ MainIdle /\ FnInit /\ LogIdle
FnNext ==
  \/ CallPercentile
  \/ CallComputeSampling
  \/ CallCwfFs
  \/ CallWinLabel
SpecFn == FnSpecInit /\ [][FnNext]_vars

LogSpecInit == Quiet /\ MainIdle /\ FnIdle /\ LogInit
LogNext ==
  \/ HandleKey
  \/ Sample
  \/ Stop
SpecLog == LogSpecInit /\ [][LogNext]_vars

Init == HystInit /\ FuzzyInit /\ WinInit /\ TriInit
          /\ MainInit /\ FnInit /\ LogInit

Next ==
  \/ HystNext
  \/ FuzzyNext
  \/ WinNext
  \/ TriNext
  \/ MainNext
  \/ FnNext
  \/ LogNext

Spec == Init /\ [][Next]_vars

(***************************************************************************)
(* Claims                                                                  *)
(***************************************************************************)

\* The two-state latch of the specification: Inactive at the start,
\* Inactive -> Active on a score >= hi, Active -> Inactive on a score < lo.
RECURSIVE Latch(_, _, _)
Latch(scores, h, l) ==
  IF scores = <<>> THEN FALSE
  ELSE LET last == scores[Len(scores)]
       IN  IF Latch(SubSeq(scores, 1, Len(scores) - 1), h, l)
           THEN last >= l ELSE last >= h

\* C1: on every prefix of the score sequence, decision_from_scores applied
\* to the full history returns the state of the two-state latch.
C1_DecisionEqualsLatch == decision = Latch(hist, hi, lo)

\* Some score was >= hi and every score after it stayed >= lo.
Held(scores, h, l) ==
  \E k \in 1..Len(scores) :
    /\ scores[k] >= h
    /\ \A j \in (k + 1)..Len(scores) : scores[j] >= l

\* C2: fed the W most recent scores only, a decision that became true on a
\* score >= hi stays true while every later score stays >= lo.
C2_WindowKeepsActivation == Held(hist, hi, lo) => decisionW

\* No rule of the rule base has positive strength for the clamped inputs.
NoRuleFires(a, g) ==
  \A k \in 1..Len(rules) : RuleStrength(rules[k], a, g) = 0

\* C3: fuzzy_fall_score never raises to its caller, and returns exactly 0
\* whenever no rule has positive strength for the clamped inputs.
C3_NoRaiseZeroWithoutRule ==
  \A k \in 1..Len(calls) :
    /\ ~calls[k].res.raised
    /\ NoRuleFires(ClampAcc(calls[k].acc), ClampGyro(calls[k].gyro))
         => calls[k].res.value = 0

\* C3 witness: acceleration only 'bajo', rotation only 'medio' (a pair with
\* no rule), and the call returned 0.
C3_Witness ==
  \E k \in 1..Len(calls) :
    /\ acc_bajo(calls[k].acc) > 0
    /\ acc_medio(calls[k].acc) = 0 /\ acc_alto(calls[k].acc) = 0
    /\ gyro_medio(calls[k].gyro) > 0
    /\ gyro_lento(calls[k].gyro) = 0 /\ gyro_rapido(calls[k].gyro) = 0
    /\ ~calls[k].res.raised
    /\ calls[k].res.value = 0

\* C4: with rotation fixed at the 'lento' peak (40 deg/s), a call with the
\* larger impact (inside the universe or clamped to its maximum) does not
\* score lower than the call with the smaller one; the tolerance is 0.02.
C4_MonotoneInImpact ==
  (/\ Len(calls) = 2
   /\ calls[1].gyro = 40 /\ calls[2].gyro = 40
   /\ 0 <= calls[1].acc /\ calls[1].acc <= calls[2].acc)
    => calls[2].res.value + 200 >= calls[1].res.value

\* C5: every value fuzzy_fall_score returns lies in [0, 1].
C5_ScoreInUnitRange ==
  \A k \in 1..Len(calls) :
    0 <= calls[k].res.value /\ calls[k].res.value <= 10000

\* C5 witness: a call with both inputs outside their universes, followed by
\* a call inside them that scores in the high band.
C5_Witness ==
  /\ Len(calls) = 2
  /\ calls[1].acc > AccMax /\ calls[1].gyro < 0
  /\ calls[1].res.value \in 0..10000
  /\ calls[2].acc \in 0..AccMax /\ calls[2].gyro \in 0..GyroMax
  /\ calls[2].res.value > 6000

\* C6: for n >= win_n the finished loop has emitted floor((n - win_n) /
\* hop_n) + 1 windows; the k-th window (from 0) is [k*hop_n, k*hop_n + win_n),
\* so the windows hold win_n samples each and come in increasing start order.
C6_WindowCountAndStarts ==
  /\ \A k \in 1..Len(rows) :
       rows[k] = <<(k - 1) * hop_n, (k - 1) * hop_n + win_n>>
  /\ (wpc = "done" /\ n >= win_n)
       => Len(rows) = ((n - win_n) \div hop_n) + 1

\* C6 witness: compute_window_features has finished a run of at least three
\* overlapping windows with samples left over at the end.
C6_Witness ==
  /\ impl = "compute_window_features" /\ wpc = "done"
  /\ Len(rows) >= 3 /\ 1 < hop_n /\ hop_n < win_n
  /\ rows[Len(rows)][2] < n

\* The triple lies in the universe and is ordered.
InUniverse(t, u) ==
  /\ Le(u[1], t[1]) /\ Le(t[1], t[2]) /\ Le(t[2], t[3]) /\ Le(t[3], u[2])

StrictlyIncreasing(t) == Lt(t[1], t[2]) /\ Lt(t[2], t[3])

SetNames == {"low", "medium", "high"}

StatsPresent ==
  \A key \in {"min", "p25", "p50", "p75", "max"} : ~IsNaN(tstats[key])

\* C7: every set of the quartile policy, built from non-missing statistics
\* over a universe lo < hi, satisfies lo <= a <= b <= c <= hi.
C7_QuartileSetsInUniverse ==
  (tpolicy \in {"quartile", "quartile_direct"} /\ StatsPresent)
    => \A s \in SetNames : InUniverse(tsets[s], tuni)

\* C7 witness: statistics out of order and on both sides of the universe.
C7_Witness ==
  /\ tpolicy = "quartile_direct"
  /\ tstats.min > tuni[2] /\ tstats.p25 < tuni[1]
  /\ tstats.p50 > tstats.p75
  /\ \A s \in SetNames : InUniverse(tsets[s], tuni)

\* C8: every set of the threshold policy built by build_fuzzy_params for a
\* defined threshold satisfies lo <= a <= b <= c <= hi.
C8_ThresholdSetsInUniverse ==
  (tpolicy = "threshold" /\ ~IsNaN(tin[2]))
    => \A s \in SetNames : InUniverse(tsets[s], tuni)

\* C9: every set derived by either policy (the generic fallback partition
\* included) is strictly increasing, a < b < c.
C9_SetsStrictlyIncreasing ==
  \/ tpolicy \in {"none", "failed"}
  \/ tpolicy \in {"quartile", "quartile_direct"} /\ ~StatsPresent
  \/ \A s \in SetNames : StrictlyIncreasing(tsets[s])

\* The triples built from the universe bounds and midpoint.
DefaultSets(u) ==
  trimf_from_quartiles([min |-> u[1], p25 |-> u[1],
                        p50 |-> (u[1] + u[2]) \div 2,
                        p75 |-> u[2], max |-> u[2]], u[1], u[2])

\* C10: when a feature has no non-missing window value, every statistic is
\* the missing sentinel, and the sets are those built from the universe
\* bounds and midpoint, with no missing sentinel in them.
C10_MissingStatsUseUniverse ==
  (tpolicy = "quartile" /\ SelectSeq(tin, NotNaN) = <<>>)
    => /\ \A key \in DOMAIN tstats : IsNaN(tstats[key])
       /\ tsets = DefaultSets(tuni)
       /\ \A s \in SetNames : \A j \in 1..3 : ~IsNaN(tsets[s][j])

\* The generic partition of a universe in fifths.
GenericPartition(u) ==
  LET span == u[2] - u[1]
  IN  [low    |-> <<u[1], u[1], u[1] + (span \div 10) * 4>>,
       medium |-> <<u[1] + (span \div 10) * 2, u[1] + (span \div 10) * 5,
                    u[1] + (span \div 10) * 8>>,
       high   |-> <<u[1] + (span \div 10) * 6, u[2], u[2]>>]

\* C11: in a calibration run of the threshold policy no error is raised;
\* when the ADL or the FALL class has no window, thr is undefined and the
\* sets are the generic partition; when both classes have windows,
\* thr = (ADL p95 + FALL p50) / 2.
C11_UndefinedThrGenericPartition ==
  tpolicy \in {"calibrated", "failed"}
    => LET adl  == ClassValues(tfeat, "ADL")
           fall == ClassValues(tfeat, "FALL")
       IN  /\ ~traised
           /\ IF adl = <<>> \/ fall = <<>>
              THEN IsNaN(tin[2]) /\ tsets = GenericPartition(tuni)
              ELSE tin[2] = (nanpercentile(adl, 95) + nanpercentile(fall, 50))
                              \div 2

\* No row of the input is labeled FALL (labels as the pipeline reads them).
NoFallRow == \A k \in 1..Len(mlabels) : StripUpper(mlabels[k]) # "FALL"

\* C12: when the input has no row labeled FALL, the FALL-only calibration
\* raises before any window is computed, and main writes neither the
\* parameter JSON nor the report.
C12_NoFallRowsNoOutput ==
  NoFallRow
    => /\ mfeats = <<>>
       /\ ~mjson /\ ~mreport
       /\ mpc \in {"load", "features", "raised"}

\* C12 witness: a readable file of ADL and NONE rows; window_features_fall
\* has raised.
C12_Witness ==
  /\ NoFallRow /\ mheader /\ Len(mlabels) >= 2
  /\ mpc = "raised" /\ mfeats = <<>> /\ ~mjson /\ ~mreport

\* The k-th smallest element of V, counted with repetitions.
Kth(V, k) ==
  CHOOSE x \in {V[j] : j \in 1..Len(V)} :
    /\ Cardinality({j \in 1..Len(V) : V[j] < x}) < k
    /\ k <= Cardinality({j \in 1..Len(V) : V[j] <= x})

\* The standard median.
Median(V) ==
  IF Len(V) % 2 = 1 THEN Kth(V, (Len(V) + 1) \div 2)
  ELSE (Kth(V, Len(V) \div 2) + Kth(V, Len(V) \div 2 + 1)) \div 2

NonMissing(V) == V # <<>> /\ \A j \in 1..Len(V) : NotNaN(V[j])

\* C13: for a non-empty list V of non-missing values, in any order,
\* percentile(V, 0) = min(V), percentile(V, 100) = max(V) and
\* percentile(V, 50) is the standard median of V.
C13_PercentileMinMaxMedian ==
  (fname = "percentile" /\ NonMissing(fin[1]))
    => /\ fin[2] = 0 => fout = Kth(fin[1], 1)
       /\ fin[2] = 100 => fout = Kth(fin[1], Len(fin[1]))
       /\ fin[2] = 50 => fout = Median(fin[1])

\* C13 witness: the median of four values given out of order, the two
\* middle ones different.
C13_Witness ==
  /\ fname = "percentile" /\ NonMissing(fin[1])
  /\ Len(fin[1]) = 4 /\ fin[2] = 50
  /\ fin[1][1] > fin[1][2] /\ fin[1][3] > fin[1][4]
  /\ Kth(fin[1], 2) < Kth(fin[1], 3)
  /\ fout = Median(fin[1])

FramesOf(f) == [k \in 1..Len(f) |-> f[k].frame]

\* C14: after a run with pre > 0 is stopped by Ctrl+C, the file holds every
\* row the loop produced, once each and in sampling order.
C14_EveryRowWrittenOnceInOrder ==
  (lpc = "stopped" /\ pre_samples > 0)
    => FramesOf(file) = [k \in 1..Len(produced) |-> k]

\* 1 / median of the strictly positive deltas, the default without one.
PositiveMedianFs(t) ==
  LET pos == SelectSeq(Deltas(t), Positive)
  IN  IF pos = <<>> THEN DefaultFs ELSE Hz(Median(pos))

\* C15: compute_sampling and the estimate of compute_window_features both
\* return 1 / median of the strictly positive timestamp deltas, and 50 Hz
\* only when no delta is positive.
C15_FsFromPositiveDeltas ==
  fname \in {"compute_sampling", "cwf_fs"} => fout = PositiveMedianFs(fin)

\* C16: for an empty history the decision is false; otherwise it is true
\* when the latest score >= hi and false when the latest score < lo,
\* whatever the earlier scores.
C16_LatestScoreOutsideBand ==
  IF hist = <<>> THEN ~decision
  ELSE /\ hist[Len(hist)] >= hi => decision
       /\ hist[Len(hist)] < lo => ~decision

\* C16 witness: an earlier score reached hi, the latest is below lo and
\* the decision is false.
C16_Witness ==
  /\ Len(hist) >= 3
  /\ \E k \in 1..(Len(hist) - 1) : hist[k] >= hi
  /\ hist[Len(hist)] < lo
  /\ ~decision

\* C17: for the clamped inputs of every call, some acceleration set and
\* some rotation set has positive membership.
C17_NoDeadZone ==
  \A k \in 1..Len(calls) :
    LET a == ClampAcc(calls[k].acc)
        g == ClampGyro(calls[k].gyro)
    IN  /\ acc_bajo(a) > 0 \/ acc_medio(a) > 0 \/ acc_alto(a) > 0
        /\ gyro_lento(g) > 0 \/ gyro_medio(g) > 0 \/ gyro_rapido(g) > 0

\* The key press changed the label in a case where the retro-mode asks for
\* a rewrite.
RetroCase ==
  /\ current_label' # current_label
  /\ pre_samples > 0
  /\ \/ retro_mode = "all"
     \/ retro_mode = "fall_only" /\ current_label' = "FALL"

\* C18: a key press changes buffered rows only in the retro case, and then
\* only their label, event_id and label_change; it never changes the rows
\* already written.
C18_KeyPressFrame ==
  [][(lpc = "key" /\ lpc' = "sample")
       => /\ file' = file
          /\ FramesOf(buffer') = FramesOf(buffer)
          /\ buffer' # buffer => RetroCase]_vars

\* C18 witness: under 'fall_only' the key '1' has just relabeled a buffered
\* row that was built with another label.
C18_Witness ==
  /\ lpc = "sample" /\ retro_mode = "fall_only"
  /\ label_change # <<>> /\ current_label = "FALL"
  /\ \E k \in 1..Len(buffer) :
       /\ buffer[k].label = "FALL"
       /\ produced[buffer[k].frame].label # "FALL"

Rank(l) == CHOOSE k \in 1..Len(LabelOrder) : LabelOrder[k] = l

\* C19: a window of NONE samples only is labeled NONE; any other window
\* gets the most frequent of its labels other than NONE, the one that sorts
\* first among equally frequent ones.
C19_WindowLabel ==
  fname = "win_label"
    => IF \A k \in 1..Len(fin) : fin[k] = "NONE" THEN fout = "NONE"
       ELSE /\ fout # "NONE"
            /\ CountOf(fin, fout) > 0
            /\ \A l \in Labels \ {"NONE"} :
                 /\ CountOf(fin, l) <= CountOf(fin, fout)
                 /\ CountOf(fin, l) = CountOf(fin, fout)
                      => Rank(fout) <= Rank(l)

\* C19 witness: NONE is the most frequent label, ADL and FALL occur once
\* each, FALL first; the window is labeled ADL.
C19_Witness ==
  /\ fname = "win_label" /\ Len(fin) = 4
  /\ CountOf(fin, "NONE") = 2
  /\ fin[1] = "FALL" /\ CountOf(fin, "ADL") = 1
  /\ fout = "ADL"

\* C20: every emitted window [i0, i1) has 0 <= i0 and i1 = i0 + win_n <= n;
\* no window is emitted when n < win_n.
C20_WindowsInsideSignal ==
  /\ \A k \in 1..Len(rows) :
       /\ 0 <= rows[k][1]
       /\ rows[k][2] = rows[k][1] + win_n
       /\ rows[k][2] <= n
  /\ n < win_n => rows = <<>>

\* C20 witness: slice_windows has finished, the samples after the last
\* window are fewer than win_n and were not emitted as a window.
C20_Witness ==
  /\ impl = "slice_windows" /\ wpc = "done"
  /\ rows # <<>>
  /\ i < n /\ n - i < win_n
  /\ rows[Len(rows)][2] <= n

\* C21: the derived win_n and hop_n are both >= 1 for every win_s, hop_s
\* and fs (products that are zero or negative included), and the windowing
\* loop terminates.
C21_LengthsPositiveLoopTerminates ==
  /\ [](wpc # "derive" => win_n >= 1 /\ hop_n >= 1)
  /\ <>(wpc = "done")

\* C21 witness: win_s * fs is negative and hop_s * fs is zero; the loop has
\* emitted a window per sample and has returned.
C21_Witness ==
  /\ wpc = "done"
  /\ wargs.win_s * wargs.fs < 0 /\ wargs.hop_s * wargs.fs = 0
  /\ win_n = 1 /\ hop_n = 1
  /\ n >= 3 /\ Len(rows) = n

====
